---- MODULE Spec2Model ----
(***************************************************************************)
(* Synchronous circuits of 5_fsm/fsm.py: the plain counter, the counter    *)
(* with enable and reset, the debouncer and the four-state classic_fsm.    *)
(*                                                                         *)
(* Every design is clocked by one clock.  A test bench iteration sets the  *)
(* inputs, lowers the clock and raises it; on the rising edge every        *)
(* seq_logic block reads the current (pre-edge) value of the signals and   *)
(* stages its .next values, which are committed together.  comb_logic      *)
(* blocks are functions of the committed values.  One action below is one  *)
(* such iteration of one design.  Signals start at 0 (a State signal at    *)
(* its first name).                                                        *)
(***************************************************************************)
EXTENDS Integers, Sequences, FiniteSets, TLC

(***************************************************************************)
(* Bounds of the model.                                                    *)
(***************************************************************************)
\* Widths of the counters' cnt_o bus that are explored (the script uses 3).
MaxWidth == 4
\* Clock edges applied to the plain counter.
MaxEdges == 40
\* Debounce windows explored for the stand-alone debouncer (the script uses 3).
MaxWindow == 3
\* Cap of the history counter of edges since the raw input last changed.
MaxRun == 10
\* Debounce window of the two debouncers inside classic_fsm.  The source
\* sets 120000 (line 199); the model scales it down.
FsmDebounceTime == 2
\* Number of detected edge events recorded after the lockout.
MaxEvents == 3

VARIABLES
    \* ---- counter (lines 4-24)
    counter_width,      \* len(cnt_o)
    counter_cnt,        \* cnt, the state register
    counter_edges,      \* history: rising clock edges so far
    \* ---- counter_en_rst (lines 28-102)
    cer_width,          \* len(cnt_o)
    cer_cnt,            \* cnt, the state register
    rst,                \* the rst wire, as sampled by the last edge
    en,                 \* the en wire, as sampled by the last edge
    cer_pre,            \* history: cnt before the last edge, -1 before any
    \* ---- debouncer (lines 105-186)
    debounce_time,      \* the window, a parameter of the instance
    debounce_cnt,       \* dbcnt, the down-counter
    prev_button,        \* the raw input button_i as sampled by the last edge
    button_o,           \* the debounced output, a register
    db_run,             \* history: edges since the last edge that sampled a
                        \* change of the raw input (0 on that edge, capped
                        \* at MaxRun), -1 while it has never changed
    db_out0,            \* history: button_o as that edge left it
    db_moved,           \* history: button_o changed on that edge or since
    db_pending,         \* history: before that edge the counter was 0 and
                        \* button_o had not yet latched prev_button
    db_blip,            \* history: the last completed change-and-change-back
    db_pre,             \* history: the registers before the last edge, and
                        \* whether there has been an edge
    \* ---- classic_fsm (lines 189-282)
    fsm_state,          \* the State signal, one of A, B, C, D
    reset_cnt,          \* the 2-bit startup lockout counter
    prev_inputs,        \* the debounced inputs as stored by the last edge
    fsm_db,             \* the two debouncers: i -> debounce_cnt, prev_button,
                        \* button_o; button_o of debouncer i is dbnc_inputs[i]
    fsm_edges,          \* history: rising edges so far, capped at reset_cnt_max
    fsm_pre,            \* history: fsm_state, input_chgs, dbnc_inputs and
                        \* reset_cnt before the last edge
    fsm_events,         \* history: the last MaxEvents edges after the lockout
                        \* on which input_chgs was not 0: state before,
                        \* input_chgs, state after
    fsm_high,           \* history: i -> the number of edges in a row, up to
                        \* the last, that sampled raw input i high (capped
                        \* at the debounce window plus 1)
    fsm_long,           \* history: i -> whether that number had reached
                        \* the window plus 1 one edge (d1) and two edges
                        \* (d2) before the last
    \* ---- classic_fsm, one clocked block at a time
    ph_phase,           \* "wait": clk is low; "eval": clk has risen and the
                        \* clocked blocks are being run
    ph_todo,            \* the clocked blocks not yet run on this edge
    ph_stg,             \* the .next value of every register
    ph_inputs           \* inputs as the test bench left it

counterVars == <<counter_width, counter_cnt, counter_edges>>
cerVars == <<cer_width, cer_cnt, rst, en, cer_pre>>
dbVars == <<debounce_time, debounce_cnt, prev_button, button_o,
            db_run, db_out0, db_moved, db_pending, db_blip, db_pre>>
fsmVars == <<fsm_state, reset_cnt, prev_inputs, fsm_db, fsm_edges, fsm_pre,
             fsm_events, fsm_high, fsm_long>>
phVars == <<ph_phase, ph_todo, ph_stg, ph_inputs>>
vars == <<counterVars, cerVars, dbVars, fsmVars, phVars>>

Bit == {0, 1}

(***************************************************************************)
(* Bus(width): a modbv signal.  A value assigned to .next is reduced       *)
(* modulo 2^width.                                                         *)
(***************************************************************************)
Bus(width, val) == val % (2 ^ width)

(***************************************************************************)
(* counter                                                                 *)
(***************************************************************************)
\* A counter that stops at its largest value instead of wrapping.
counter_next_state_logic_saturating(width, cnt) ==
    IF cnt + 1 >= 2 ^ width THEN cnt ELSE cnt + 1

\* cnt.next = cnt + 1
counter_next_state_logic(width, cnt) == Bus(width, cnt + 1)

\* cnt_o.next = cnt
counter_output_logic(cnt) == cnt

cnt_o == counter_output_logic(counter_cnt)

CounterIdle ==
    /\ counter_width = 3
    /\ counter_cnt = 0
    /\ counter_edges = 0

CounterInit ==
    /\ counter_width \in 1..MaxWidth
    /\ counter_cnt = 0
    /\ counter_edges = 0

\* One cycle of clk_sim: a rising edge of clk.
CounterClock ==
    /\ counter_edges < MaxEdges
    /\ counter_cnt' = counter_next_state_logic(counter_width, counter_cnt)
    /\ counter_edges' = counter_edges + 1
    /\ UNCHANGED counter_width

(***************************************************************************)
(* counter_en_rst                                                          *)
(***************************************************************************)
\* Enable tested before reset.
cer_next_state_logic_en_first(width, cnt, rst_v, en_v) ==
    IF en_v = 1 THEN Bus(width, cnt + 1)
    ELSE IF rst_v = 1 THEN 0
    ELSE cnt

\* The increment applied whether or not enable is asserted.
cer_next_state_logic_free_running(width, cnt, rst_v, en_v) ==
    IF rst_v = 1 THEN 0 ELSE Bus(width, cnt + 1)

\* if rst == True: cnt.next = 0 / elif en == True: cnt.next = cnt + 1 /
\* else: pass.  rst and en are the module-level wires, which line 54 binds
\* to the rst_i and en_i ports.
cer_next_state_logic(width, cnt, rst_v, en_v) ==
    IF rst_v = 1 THEN 0
    ELSE IF en_v = 1 THEN Bus(width, cnt + 1)
    ELSE cnt

\* cnt_o.next = cnt
cer_output_logic(cnt) == cnt

\* The instance built with its two control ports crossed.
cer_ports_crossed == [rst_i |-> "en", en_i |-> "rst"]

\* counter_en_rst(clk_i=clk, rst_i=rst, en_i=en, cnt_o=cnt): the wire each
\* control port of the instance is bound to.
cer_ports == [rst_i |-> "rst", en_i |-> "en"]

\* The value, as the last edge sampled it, of the wire bound to a port.
cer_port_value(port) == IF cer_ports[port] = "rst" THEN rst ELSE en

cer_cnt_o == cer_output_logic(cer_cnt)

CerIdle ==
    /\ cer_width = 3
    /\ cer_cnt = 0
    /\ rst = 0
    /\ en = 0
    /\ cer_pre = -1

CerInit ==
    /\ cer_width \in 1..MaxWidth
    /\ cer_cnt = 0
    /\ rst = 0
    /\ en = 0
    /\ cer_pre = -1

\* One iteration of cntr_tb: rst and en as the test bench left them, then
\* a rising edge of clk.
CerClock(r, e) ==
    /\ rst' = r
    /\ en' = e
    /\ cer_cnt' = cer_next_state_logic(cer_width, cer_cnt, r, e)
    /\ cer_pre' = cer_cnt
    /\ UNCHANGED cer_width

(***************************************************************************)
(* debouncer                                                               *)
(***************************************************************************)
RECURSIVE CeilLog2From(_, _)
CeilLog2From(x, n) == IF 2 ^ n >= x THEN n ELSE CeilLog2From(x, n + 1)

\* The width taken from the window itself, not from the window plus one.
dbcnt_width_narrow(time) == CeilLog2From(time, 0)

\* int(ceil(log2(debounce_time + 1))), the width of debounce_cnt
dbcnt_width(time) == CeilLog2From(time + 1, 0)

\* The reload on a change of the raw input left out.
debouncer_next_state_logic_no_reload(time, cnt, prev, button_i) ==
    [debounce_cnt |-> IF button_i = prev /\ cnt /= 0 THEN cnt - 1 ELSE cnt,
     prev_button |-> button_i]

\* The counter reloaded with one less than the window.
debouncer_next_state_logic_short(time, cnt, prev, button_i) ==
    [debounce_cnt |->
        IF button_i = prev
        THEN IF cnt /= 0 THEN cnt - 1 ELSE cnt
        ELSE Bus(dbcnt_width(time), time - 1),
     prev_button |-> button_i]

\* The counter never counted down.
debouncer_next_state_logic_no_count(time, cnt, prev, button_i) ==
    [debounce_cnt |->
        IF button_i = prev THEN cnt ELSE Bus(dbcnt_width(time), time),
     prev_button |-> button_i]

\* The first clocked block: the counter counts down to 0 while the raw
\* input equals the stored one and is reloaded with debounce_time when it
\* differs; the raw input is stored.
debouncer_next_state_logic(time, cnt, prev, button_i) ==
    [debounce_cnt |->
        IF button_i = prev
        THEN IF cnt /= 0 THEN Bus(dbcnt_width(time), cnt - 1) ELSE cnt
        ELSE Bus(dbcnt_width(time), time),
     prev_button |-> button_i]

\* The latch left out: button_o never assigned.
debouncer_output_logic_hold(cnt, prev, out) == out

\* The test of the counter inverted.
debouncer_output_logic_inverted(cnt, prev, out) == IF cnt /= 0 THEN prev ELSE out

\* The second clocked block: button_o latches prev_button when the
\* counter is 0, and holds otherwise.
debouncer_output_logic(cnt, prev, out) == IF cnt = 0 THEN prev ELSE out

NoBlip == [len |-> 0, moved |-> FALSE, pending |-> FALSE]
NoEdge == [edge |-> FALSE, debounce_cnt |-> 0, prev_button |-> 0, button_o |-> 0]

DbIdle ==
    /\ debounce_time = 3
    /\ debounce_cnt = 0
    /\ prev_button = 0
    /\ button_o = 0
    /\ db_run = -1
    /\ db_out0 = 0
    /\ db_moved = FALSE
    /\ db_pending = FALSE
    /\ db_blip = NoBlip
    /\ db_pre = NoEdge

DbInitAt(windows) ==
    /\ debounce_time \in windows
    /\ debounce_cnt = 0
    /\ prev_button = 0
    /\ button_o = 0
    /\ db_run = -1
    /\ db_out0 = 0
    /\ db_moved = FALSE
    /\ db_pending = FALSE
    /\ db_blip = NoBlip
    /\ db_pre = NoEdge

DbInit == DbInitAt(1..MaxWindow)
DbInitZero == DbInitAt({0})

\* One iteration of debounce_tb: button_i as the test bench left it, then a
\* rising edge of clk.  Both clocked blocks read the pre-edge values.
DbClock(button_i) ==
    LET nxt == debouncer_next_state_logic(debounce_time, debounce_cnt,
                                          prev_button, button_i)
        out == debouncer_output_logic(debounce_cnt, prev_button, button_o)
        chg == button_i /= prev_button
        mov == out /= button_o
    IN  /\ debounce_cnt' = nxt.debounce_cnt
        /\ prev_button' = nxt.prev_button
        /\ button_o' = out
        /\ db_run' = IF chg THEN 0
                     ELSE IF db_run = -1 THEN -1
                     ELSE IF db_run < MaxRun THEN db_run + 1 ELSE db_run
        /\ db_out0' = IF chg THEN out ELSE db_out0
        /\ db_moved' = IF chg THEN mov ELSE (db_moved \/ mov)
        /\ db_pending' = IF chg THEN (debounce_cnt = 0 /\ button_o /= prev_button)
                         ELSE db_pending
        /\ db_blip' = IF chg /\ db_run >= 0
                      THEN [len |-> db_run + 1, moved |-> db_moved \/ mov,
                            pending |-> db_pending]
                      ELSE db_blip
        /\ db_pre' = [edge |-> TRUE, debounce_cnt |-> debounce_cnt,
                      prev_button |-> prev_button, button_o |-> button_o]
        /\ UNCHANGED debounce_time

(***************************************************************************)
(* classic_fsm                                                             *)
(***************************************************************************)
\* Bus(2): the width of reset_cnt
reset_cnt_width == 2
\* reset_cnt.max, the exclusive upper bound of a 2-bit bus
reset_cnt_max == 2 ^ reset_cnt_width
\* len(inputs_i)
inputs_width == 2

\* bus[i]
BitOf(bus, i) == (bus \div (2 ^ i)) % 2

\* The two wires dbnc_inputs.i[0] and dbnc_inputs.i[1] as a bus.
dbnc_inputs == fsm_db[0].button_o + 2 * fsm_db[1].button_o

\* Rising edges detected on the raw vector instead of on stored history.
detect_chg_level(dbnc, prev) == dbnc

\* input_chgs.next = dbnc_inputs & ~prev_inputs
detect_chg(dbnc, prev) ==
    BitOf(dbnc, 0) * (1 - BitOf(prev, 0)) + 2 * (BitOf(dbnc, 1) * (1 - BitOf(prev, 1)))

input_chgs == detect_chg(dbnc_inputs, prev_inputs)

\* input_chgs[1] tested before input_chgs[0].
fsm_next_state_logic_bck_first(state, cnt, chgs, dbnc) ==
    [fsm_state |->
        IF cnt < reset_cnt_max - 1 THEN "A"
        ELSE IF state \notin {"A", "B", "C", "D"} THEN "A"
        ELSE IF BitOf(chgs, 1) = 1
             THEN CASE state = "A" -> "D" [] state = "B" -> "A"
                    [] state = "C" -> "B" [] state = "D" -> "C"
        ELSE IF BitOf(chgs, 0) = 1
             THEN CASE state = "A" -> "B" [] state = "B" -> "C"
                    [] state = "C" -> "D" [] state = "D" -> "A"
        ELSE state,
     reset_cnt |-> IF cnt < reset_cnt_max - 1 THEN Bus(reset_cnt_width, cnt + 1) ELSE cnt,
     prev_inputs |-> dbnc]

\* The backward branch of state D going to B.
fsm_next_state_logic_d_bck(state, cnt, chgs, dbnc) ==
    [fsm_state |->
        IF cnt < reset_cnt_max - 1 THEN "A"
        ELSE IF state \notin {"A", "B", "C", "D"} THEN "A"
        ELSE IF BitOf(chgs, 0) = 1
             THEN CASE state = "A" -> "B" [] state = "B" -> "C"
                    [] state = "C" -> "D" [] state = "D" -> "A"
        ELSE IF BitOf(chgs, 1) = 1
             THEN CASE state = "A" -> "D" [] state = "B" -> "A"
                    [] state = "C" -> "B" [] state = "D" -> "B"
        ELSE state,
     reset_cnt |-> IF cnt < reset_cnt_max - 1 THEN Bus(reset_cnt_width, cnt + 1) ELSE cnt,
     prev_inputs |-> dbnc]

\* The backward branch of state C going to D.
fsm_next_state_logic_c_bck(state, cnt, chgs, dbnc) ==
    [fsm_state |->
        IF cnt < reset_cnt_max - 1 THEN "A"
        ELSE IF state \notin {"A", "B", "C", "D"} THEN "A"
        ELSE IF BitOf(chgs, 0) = 1
             THEN CASE state = "A" -> "B" [] state = "B" -> "C"
                    [] state = "C" -> "D" [] state = "D" -> "A"
        ELSE IF BitOf(chgs, 1) = 1
             THEN CASE state = "A" -> "D" [] state = "B" -> "A"
                    [] state = "C" -> "D" [] state = "D" -> "C"
        ELSE state,
     reset_cnt |-> IF cnt < reset_cnt_max - 1 THEN Bus(reset_cnt_width, cnt + 1) ELSE cnt,
     prev_inputs |-> dbnc]

\* The lockout branch forcing the state to B.
fsm_next_state_logic_force_b(state, cnt, chgs, dbnc) ==
    [fsm_state |->
        IF cnt < reset_cnt_max - 1 THEN "B"
        ELSE IF state \notin {"A", "B", "C", "D"} THEN "A"
        ELSE IF BitOf(chgs, 0) = 1
             THEN CASE state = "A" -> "B" [] state = "B" -> "C"
                    [] state = "C" -> "D" [] state = "D" -> "A"
        ELSE IF BitOf(chgs, 1) = 1
             THEN CASE state = "A" -> "D" [] state = "B" -> "A"
                    [] state = "C" -> "B" [] state = "D" -> "C"
        ELSE state,
     reset_cnt |-> IF cnt < reset_cnt_max - 1 THEN Bus(reset_cnt_width, cnt + 1) ELSE cnt,
     prev_inputs |-> dbnc]

\* The default branch holding the state instead of going to A.
fsm_next_state_logic_no_default(state, cnt, chgs, dbnc) ==
    [fsm_state |->
        IF cnt < reset_cnt_max - 1 THEN "A"
        ELSE IF state \notin {"A", "B", "C", "D"} THEN state
        ELSE IF BitOf(chgs, 0) = 1
             THEN CASE state = "A" -> "B" [] state = "B" -> "C"
                    [] state = "C" -> "D" [] state = "D" -> "A"
        ELSE IF BitOf(chgs, 1) = 1
             THEN CASE state = "A" -> "D" [] state = "B" -> "A"
                    [] state = "C" -> "B" [] state = "D" -> "C"
        ELSE state,
     reset_cnt |-> IF cnt < reset_cnt_max - 1 THEN Bus(reset_cnt_width, cnt + 1) ELSE cnt,
     prev_inputs |-> dbnc]

\* The lockout tested against reset_cnt.max instead of reset_cnt.max - 1,
\* which a 2-bit counter never reaches.
fsm_next_state_logic_wrap(state, cnt, chgs, dbnc) ==
    [fsm_state |->
        IF cnt < reset_cnt_max THEN "A"
        ELSE IF state \notin {"A", "B", "C", "D"} THEN "A"
        ELSE IF BitOf(chgs, 0) = 1
             THEN CASE state = "A" -> "B" [] state = "B" -> "C"
                    [] state = "C" -> "D" [] state = "D" -> "A"
        ELSE IF BitOf(chgs, 1) = 1
             THEN CASE state = "A" -> "D" [] state = "B" -> "A"
                    [] state = "C" -> "B" [] state = "D" -> "C"
        ELSE state,
     reset_cnt |-> IF cnt < reset_cnt_max THEN Bus(reset_cnt_width, cnt + 1) ELSE cnt,
     prev_inputs |-> dbnc]

\* The clocked block of classic_fsm.  During the lockout the state is
\* forced to A and reset_cnt counts; after it the branch of the current
\* state tests input_chgs[0], then input_chgs[1]; a state that is none of
\* the four goes to A.  The debounced inputs are stored on every edge.
fsm_next_state_logic(state, cnt, chgs, dbnc) ==
    [fsm_state |->
        IF cnt < reset_cnt_max - 1 THEN "A"
        ELSE IF state = "A"
             THEN IF BitOf(chgs, 0) = 1 THEN "B"
                  ELSE IF BitOf(chgs, 1) = 1 THEN "D" ELSE state
        ELSE IF state = "B"
             THEN IF BitOf(chgs, 0) = 1 THEN "C"
                  ELSE IF BitOf(chgs, 1) = 1 THEN "A" ELSE state
        ELSE IF state = "C"
             THEN IF BitOf(chgs, 0) = 1 THEN "D"
                  ELSE IF BitOf(chgs, 1) = 1 THEN "B" ELSE state
        ELSE IF state = "D"
             THEN IF BitOf(chgs, 0) = 1 THEN "A"
                  ELSE IF BitOf(chgs, 1) = 1 THEN "C" ELSE state
        ELSE "A",
     reset_cnt |-> IF cnt < reset_cnt_max - 1 THEN Bus(reset_cnt_width, cnt + 1) ELSE cnt,
     prev_inputs |-> dbnc]

\* The branch of state D left out, so that D falls to the default.
fsm_output_logic_no_d(state) ==
    IF state = "A" THEN 1
    ELSE IF state = "B" THEN 2
    ELSE IF state = "C" THEN 4
    ELSE 15

\* outputs_o: 0b0001, 0b0010, 0b0100, 0b1000 for A, B, C, D; 0b1111 otherwise
fsm_output_logic(state) ==
    IF state = "A" THEN 1
    ELSE IF state = "B" THEN 2
    ELSE IF state = "C" THEN 4
    ELSE IF state = "D" THEN 8
    ELSE 15

outputs == fsm_output_logic(fsm_state)

DebouncerReset == [debounce_cnt |-> 0, prev_button |-> 0, button_o |-> 0]

FsmInit ==
    /\ fsm_state = "A"
    /\ reset_cnt = 0
    /\ prev_inputs = 0
    /\ fsm_db = [i \in 0..(inputs_width - 1) |-> DebouncerReset]
    /\ fsm_edges = 0
    /\ fsm_pre = [state |-> "A", chgs |-> 0, dbnc |-> 0, cnt |-> 0]
    /\ fsm_events = <<>>
    /\ fsm_high = [i \in 0..(inputs_width - 1) |-> 0]
    /\ fsm_long = [i \in 0..(inputs_width - 1) |-> [d1 |-> FALSE, d2 |-> FALSE]]

\* The state register and the signals the clocked block reads, drawn from
\* all their values and from one value that is none of the four states.
FsmFaultInit ==
    /\ fsm_state \in {"A", "B", "C", "D", "X"}
    /\ reset_cnt \in 0..(reset_cnt_max - 1)
    /\ prev_inputs \in 0..(2 ^ inputs_width - 1)
    /\ fsm_db \in [0..(inputs_width - 1) ->
                    {[DebouncerReset EXCEPT !.button_o = b] : b \in Bit}]
    /\ fsm_edges = 0
    /\ fsm_pre = [state |-> "A", chgs |-> 0, dbnc |-> 0, cnt |-> 0]
    /\ fsm_events = <<>>
    /\ fsm_high = [i \in 0..(inputs_width - 1) |-> 0]
    /\ fsm_long = [i \in 0..(inputs_width - 1) |-> [d1 |-> FALSE, d2 |-> FALSE]]

\* One iteration of fsm_tb: inputs as the test bench left it, then a rising
\* edge of clk.  The clocked blocks of the two debouncers and of the FSM
\* all read the pre-edge values.
FsmClock(inputs) ==
    LET nxt == fsm_next_state_logic(fsm_state, reset_cnt, input_chgs, dbnc_inputs)
        db(i) == debouncer_next_state_logic(FsmDebounceTime, fsm_db[i].debounce_cnt,
                                            fsm_db[i].prev_button, BitOf(inputs, i))
        out(i) == debouncer_output_logic(fsm_db[i].debounce_cnt,
                                         fsm_db[i].prev_button, fsm_db[i].button_o)
        ev == [from |-> fsm_state, chgs |-> input_chgs, to |-> nxt.fsm_state]
    IN  /\ fsm_state' = nxt.fsm_state
        /\ reset_cnt' = nxt.reset_cnt
        /\ prev_inputs' = nxt.prev_inputs
        /\ fsm_db' = [i \in 0..(inputs_width - 1) |->
                        [debounce_cnt |-> db(i).debounce_cnt,
                         prev_button |-> db(i).prev_button,
                         button_o |-> out(i)]]
        /\ fsm_edges' = IF fsm_edges < reset_cnt_max THEN fsm_edges + 1 ELSE fsm_edges
        /\ fsm_pre' = [state |-> fsm_state, chgs |-> input_chgs,
                       dbnc |-> dbnc_inputs, cnt |-> reset_cnt]
        /\ fsm_high' = [i \in 0..(inputs_width - 1) |->
                          IF BitOf(inputs, i) = 0 THEN 0
                          ELSE IF fsm_high[i] <= FsmDebounceTime THEN fsm_high[i] + 1
                          ELSE fsm_high[i]]
        /\ fsm_long' = [i \in 0..(inputs_width - 1) |->
                          [d1 |-> fsm_high[i] >= FsmDebounceTime + 1,
                           d2 |-> fsm_long[i].d1]]
        /\ fsm_events' =
              IF fsm_edges >= reset_cnt_max - 1 /\ input_chgs /= 0
              THEN IF Len(fsm_events) < MaxEvents
                   THEN Append(fsm_events, ev)
                   ELSE Append(Tail(fsm_events), ev)
              ELSE fsm_events

(***************************************************************************)
(* classic_fsm with the rising edge split into its steps: the clocked      *)
(* blocks of the two debouncers and of the FSM run one after the other in  *)
(* any order, each staging its .next values, and the staged values are     *)
(* committed together once all have run.                                   *)
(***************************************************************************)
\* The seq_logic blocks sensitive to clk.posedge: next_state_logic and
\* output_logic of debouncer 0 and 1, next_state_logic of classic_fsm.
ClockedBlocks ==
    ({"db_next_state_logic", "db_output_logic"} \X (0..(inputs_width - 1)))
        \cup {<<"fsm_next_state_logic", 0>>}

\* A block reading the value staged on the same edge.
SignalRead_staged(cur, staged) == staged

\* What a clocked block gets when it reads a signal: the current value,
\* whatever has been assigned to its .next on this edge.
SignalRead(cur, staged) == cur

\* The current value of every register of classic_fsm.
Registers ==
    [fsm_state |-> fsm_state, reset_cnt |-> reset_cnt,
     prev_inputs |-> prev_inputs, fsm_db |-> fsm_db]

\* Before the first edge nothing is staged: every .next is the signal's
\* initial value.
PhIdle ==
    /\ ph_phase = "wait"
    /\ ph_todo = {}
    /\ ph_stg = [fsm_state |-> "A", reset_cnt |-> 0, prev_inputs |-> 0,
                 fsm_db |-> [i \in 0..(inputs_width - 1) |-> DebouncerReset]]
    /\ ph_inputs = 0

\* The test bench sets inputs and raises clk: every clocked block becomes
\* runnable; a .next not assigned keeps the current value.
PhRaise(inputs) ==
    /\ ph_phase = "wait"
    /\ ph_phase' = "eval"
    /\ ph_todo' = ClockedBlocks
    /\ ph_stg' = Registers
    /\ ph_inputs' = inputs
    /\ UNCHANGED fsmVars

\* One clocked block runs.
PhEval(b) ==
    LET ReadDb(i, f) == SignalRead(fsm_db[i][f], ph_stg.fsm_db[i][f])
        i == b[2]
        db == debouncer_next_state_logic(FsmDebounceTime, ReadDb(i, "debounce_cnt"),
                                         ReadDb(i, "prev_button"), BitOf(ph_inputs, i))
        out == debouncer_output_logic(ReadDb(i, "debounce_cnt"),
                                      ReadDb(i, "prev_button"), ReadDb(i, "button_o"))
        dbnc == ReadDb(0, "button_o") + 2 * ReadDb(1, "button_o")
        chgs == detect_chg(dbnc, SignalRead(prev_inputs, ph_stg.prev_inputs))
        nxt == fsm_next_state_logic(SignalRead(fsm_state, ph_stg.fsm_state),
                                    SignalRead(reset_cnt, ph_stg.reset_cnt), chgs, dbnc)
    IN  /\ ph_phase = "eval"
        /\ b \in ph_todo
        /\ ph_todo' = ph_todo \ {b}
        /\ ph_stg' =
              IF b[1] = "db_next_state_logic"
              THEN [ph_stg EXCEPT !.fsm_db[i].debounce_cnt = db.debounce_cnt,
                                  !.fsm_db[i].prev_button = db.prev_button]
              ELSE IF b[1] = "db_output_logic"
              THEN [ph_stg EXCEPT !.fsm_db[i].button_o = out]
              ELSE [ph_stg EXCEPT !.fsm_state = nxt.fsm_state,
                                  !.reset_cnt = nxt.reset_cnt,
                                  !.prev_inputs = nxt.prev_inputs]
        /\ UNCHANGED <<ph_phase, ph_inputs, fsmVars>>

\* All blocks have run: every register takes its .next value.
PhCommit ==
    /\ ph_phase = "eval"
    /\ ph_todo = {}
    /\ fsm_state' = ph_stg.fsm_state
    /\ reset_cnt' = ph_stg.reset_cnt
    /\ prev_inputs' = ph_stg.prev_inputs
    /\ fsm_db' = ph_stg.fsm_db
    /\ ph_phase' = "wait"
    /\ UNCHANGED <<ph_todo, ph_stg, ph_inputs,
                   fsm_edges, fsm_pre, fsm_events, fsm_high, fsm_long>>

(***************************************************************************)
(* Specifications: one per design, as the script simulates them one after  *)
(* the other, each after its own initialize().                             *)
(***************************************************************************)
CounterNext == CounterClock /\ UNCHANGED <<cerVars, dbVars, fsmVars, phVars>>
InitCounter == CounterInit /\ CerIdle /\ DbIdle /\ FsmInit /\ PhIdle
SpecCounter == InitCounter /\ [][CounterNext]_vars

CerNext ==
    /\ \E r \in Bit, e \in Bit : CerClock(r, e)
    /\ UNCHANGED <<counterVars, dbVars, fsmVars, phVars>>
InitCer == CerInit /\ CounterIdle /\ DbIdle /\ FsmInit /\ PhIdle
SpecCer == InitCer /\ [][CerNext]_vars

DbNext == (\E b \in Bit : DbClock(b)) /\ UNCHANGED <<counterVars, cerVars, fsmVars, phVars>>
InitDb == DbInit /\ CounterIdle /\ CerIdle /\ FsmInit /\ PhIdle
SpecDb == InitDb /\ [][DbNext]_vars

\* The debouncer on a clock that keeps running.
SpecDbLive == InitDb /\ [][DbNext]_vars /\ WF_vars(DbNext)

\* The debouncer with a window of 0.
InitDbZero == DbInitZero /\ CounterIdle /\ CerIdle /\ FsmInit /\ PhIdle
SpecDbZero == InitDbZero /\ [][DbNext]_vars

FsmNext ==
    /\ \E inputs \in 0..(2 ^ inputs_width - 1) : FsmClock(inputs)
    /\ UNCHANGED <<counterVars, cerVars, dbVars, phVars>>
InitFsm == FsmInit /\ PhIdle /\ CounterIdle /\ CerIdle /\ DbIdle
SpecFsm == InitFsm /\ [][FsmNext]_vars

\* classic_fsm clocked from any value of its state register.
InitFsmFault == FsmFaultInit /\ PhIdle /\ CounterIdle /\ CerIdle /\ DbIdle
SpecFsmFault == InitFsmFault /\ [][FsmNext]_vars

\* classic_fsm with every rising edge taken one clocked block at a time.
PhNext ==
    /\ \/ \E inputs \in 0..(2 ^ inputs_width - 1) : PhRaise(inputs)
       \/ \E b \in ClockedBlocks : PhEval(b)
       \/ PhCommit
    /\ UNCHANGED <<counterVars, cerVars, dbVars>>
SpecFsmPhases == InitFsm /\ [][PhNext]_vars

(***************************************************************************)
(* Claims                                                                  *)
(***************************************************************************)
\* The cyclic order of the states and the transition table of the
\* specification, stated apart from fsm_next_state_logic.
StateOrder == <<"A", "B", "C", "D">>
IndexOf(state) == CHOOSE i \in 1..Len(StateOrder) : StateOrder[i] = state
Successor(state) == StateOrder[(IndexOf(state) % Len(StateOrder)) + 1]
Predecessor(state) ==
    StateOrder[((IndexOf(state) + Len(StateOrder) - 2) % Len(StateOrder)) + 1]
TableStep(state, chgs) ==
    IF BitOf(chgs, 0) = 1 THEN Successor(state)
    ELSE IF BitOf(chgs, 1) = 1 THEN Predecessor(state)
    ELSE state
RECURSIVE TableRun(_, _)
TableRun(state, events) ==
    IF events = <<>> THEN state
    ELSE TableRun(TableStep(state, Head(events).chgs), Tail(events))
OneHotCode(state) == 2 ^ (IndexOf(state) - 1)
BitsSet(bus) == BitOf(bus, 0) + BitOf(bus, 1) + BitOf(bus, 2) + BitOf(bus, 3)
\* The last edge came after the lockout: at least reset_cnt_max - 1 edges
\* went before it.
AfterLockout == fsm_edges >= reset_cnt_max

\* C1: on an edge after the lockout the state goes to its cyclic successor
\* when edge[0] is asserted, to its cyclic predecessor when only edge[1]
\* is, and holds when neither is.
FsmFollowsTable ==
    (AfterLockout /\ fsm_pre.state \in {"A", "B", "C", "D"}) =>
        /\ BitOf(fsm_pre.chgs, 0) = 1 => fsm_state = Successor(fsm_pre.state)
        /\ fsm_pre.chgs = 2 => fsm_state = Predecessor(fsm_pre.state)
        /\ fsm_pre.chgs = 0 => fsm_state = fsm_pre.state

\* A backward step that wraps from A to D.
FsmSteppedBack ==
    /\ AfterLockout
    /\ fsm_pre.state = "A"
    /\ fsm_pre.chgs = 2
    /\ fsm_state = "D"

\* C2: on an edge after the lockout with edge[0] and edge[1] both asserted
\* the state takes the forward transition, never the backward one.
FsmForwardWins ==
    (AfterLockout /\ fsm_pre.chgs = 3) =>
        /\ fsm_state = Successor(fsm_pre.state)
        /\ fsm_state /= Predecessor(fsm_pre.state)

\* Both edges asserted in state D.
FsmBothEdges ==
    /\ AfterLockout
    /\ fsm_pre.state = "D"
    /\ fsm_pre.chgs = 3
    /\ fsm_state = "A"

\* C3: after each of the first reset_cnt.max - 1 edges the state is A,
\* whatever the raw inputs were.
FsmLockout == (fsm_edges >= 1 /\ fsm_edges <= reset_cnt_max - 1) => fsm_state = "A"

\* The last edge of the lockout, with both raw inputs high since the start.
FsmLockedWithInputs ==
    /\ fsm_edges = reset_cnt_max - 1
    /\ fsm_db[0].prev_button = 1
    /\ fsm_db[1].prev_button = 1
    /\ fsm_db[0].debounce_cnt < FsmDebounceTime
    /\ fsm_state = "A"

\* C6: in every reachable state the output has exactly one bit set, the
\* bit of the current state, and is never 1111.
FsmOneHot ==
    /\ BitsSet(outputs) = 1
    /\ outputs = OneHotCode(fsm_state)
    /\ outputs /= 15

\* State D is reached and drives 1000.
FsmInD ==
    /\ fsm_state = "D"
    /\ outputs = 8

\* C7: the state reached is the one the transition table gives for the
\* recorded edge events from the recorded start, and the output is its
\* code; from A the events fwd, fwd, bck give A, B, C, B and output 0010.
FsmDeterminedByEvents ==
    /\ fsm_events /= <<>> =>
          /\ fsm_state = TableRun(fsm_events[1].from, fsm_events)
          /\ outputs = OneHotCode(TableRun(fsm_events[1].from, fsm_events))
    /\ \A i \in 1..(Len(fsm_events) - 2) :
          ( /\ fsm_events[i].from = "A"
            /\ fsm_events[i].chgs = 1
            /\ fsm_events[i + 1].chgs = 1
            /\ fsm_events[i + 2].chgs = 2 ) =>
              /\ fsm_events[i].to = "B"
              /\ fsm_events[i + 1].to = "C"
              /\ fsm_events[i + 2].to = "B"
              /\ i + 2 = Len(fsm_events) => outputs = 2

\* The events fwd, fwd, bck from A have happened and the state is B.
FsmFwdFwdBck ==
    /\ Len(fsm_events) = 3
    /\ fsm_events[1].from = "A"
    /\ fsm_events[1].chgs = 1
    /\ fsm_events[2].chgs = 1
    /\ fsm_events[3].chgs = 2
    /\ fsm_state = "B"
    /\ outputs = 2

\* C8: after k rising clock edges from 0 the plain counter's output cnt_o
\* equals k mod 2^W: it wraps to 0 after 2^W - 1.
CounterCountsModulo == cnt_o = counter_edges % (2 ^ counter_width)

\* The counter has gone once round and is counting again.
CounterWrapped ==
    /\ counter_width = 3
    /\ counter_edges = 10
    /\ cnt_o = 2

\* C9: in counter_en_rst, an edge with reset and enable both asserted
\* leaves the count at 0 whatever it was; the increment is not applied.
CerResetOverEnable ==
    (cer_pre >= 0 /\ rst = 1 /\ en = 1) => cer_cnt = 0

\* Reset and enable both asserted on an edge with a non-zero count.
CerResetWithEnable ==
    /\ cer_pre > 0
    /\ rst = 1
    /\ en = 1
    /\ cer_cnt = 0

\* C10: in counter_en_rst, an edge with reset deasserted increments the
\* count modulo 2^W when enable is asserted and leaves it alone otherwise.
CerCountOrHold ==
    (cer_pre >= 0 /\ rst = 0) =>
        cer_cnt = IF en = 1 THEN (cer_pre + 1) % (2 ^ cer_width) ELSE cer_pre

\* Both cases have happened at the top of the range: a wrap with enable
\* asserted, or a hold of a non-zero count with enable deasserted.
CerWrappedOrHeld ==
    /\ cer_pre = 2 ^ cer_width - 1
    /\ rst = 0
    /\ \/ en = 1 /\ cer_cnt = 0
       \/ en = 0 /\ cer_cnt = cer_pre

DbPropagates ==
    /\ (db_run >= 0 /\ db_run <= debounce_time) => button_o = db_out0
    /\ db_run >= debounce_time + 1 => button_o = prev_button
    /\ (debounce_time = 3 /\ db_run >= 0 /\ prev_button = 1 /\ db_out0 = 0)
           => button_o = IF db_run >= 4 THEN 1 ELSE 0

\* The output has flipped to 1 on step 4 of a press with W = 3.
DbPropagated ==
    /\ debounce_time = 3
    /\ db_run = 4
    /\ prev_button = 1
    /\ db_out0 = 0
    /\ button_o = 1

DbZeroMeansLatched == debounce_cnt = 0 => button_o = prev_button

\* C12 as amended: whenever the counter is 0 and was 0 before the last
\* edge too, or no edge has happened yet, the output equals the stored raw
\* input.
DbZeroTwiceMeansLatched ==
    (debounce_cnt = 0 /\ (db_pre.edge => db_pre.debounce_cnt = 0))
        => button_o = prev_button

\* The output has just latched a new level: the counter was 0 before the
\* edge with the output still on the old level.
DbJustLatched ==
    /\ db_pre.edge
    /\ db_pre.debounce_cnt = 0
    /\ db_pre.button_o /= db_pre.prev_button
    /\ debounce_cnt = 0
    /\ button_o = prev_button

FsmUnknownHeals ==
    /\ fsm_state \notin {"A", "B", "C", "D"} => outputs = 15
    /\ (fsm_edges >= 1 /\ fsm_pre.state \notin {"A", "B", "C", "D"})
          => fsm_state = "A"

\* An unknown state met an edge after the lockout with both edges asserted.
FsmHealed ==
    /\ fsm_edges = 1
    /\ fsm_pre.state = "X"
    /\ fsm_pre.cnt = reset_cnt_max - 1
    /\ fsm_pre.chgs = 3
    /\ fsm_state = "A"
    /\ outputs = 1

\* C16: prev_inputs is the debounced vector of the edge before, on every
\* edge; edge[i] is asserted exactly when debounced input i is high and was
\* low an edge earlier, hence never on two edges in a row, and the state
\* changes only on an edge with some edge[i] asserted.
FsmOneShot ==
    /\ fsm_edges >= 1 => prev_inputs = fsm_pre.dbnc
    /\ \A i \in 0..(inputs_width - 1) :
          /\ BitOf(input_chgs, i) = 1 <=>
                (BitOf(dbnc_inputs, i) = 1 /\ BitOf(fsm_pre.dbnc, i) = 0)
          /\ BitOf(fsm_pre.chgs, i) = 1 => BitOf(input_chgs, i) = 0
          /\ (BitOf(fsm_pre.dbnc, i) = 1 /\ BitOf(dbnc_inputs, i) = 1)
                => BitOf(input_chgs, i) = 0
    /\ fsm_state /= fsm_pre.state => fsm_pre.chgs /= 0

\* Debounced input 0 moved the state one edge ago and is still high: no
\* edge is asserted now.
FsmEdgeSpent ==
    /\ fsm_pre.state = "A"
    /\ fsm_state = "B"
    /\ fsm_pre.chgs = 1
    /\ dbnc_inputs = 1
    /\ input_chgs = 0

\* C17: reset_cnt goes up by one on every edge until it is
\* reset_cnt.max - 1 and then stays: it never decreases or wraps, and the
\* lockout, once over, is over for good.
FsmLockoutSaturates ==
    /\ reset_cnt <= reset_cnt_max - 1
    /\ fsm_edges >= 1 =>
          /\ reset_cnt >= fsm_pre.cnt
          /\ reset_cnt = IF fsm_pre.cnt < reset_cnt_max - 1
                          THEN fsm_pre.cnt + 1 ELSE fsm_pre.cnt
    /\ reset_cnt < reset_cnt_max - 1 <=> fsm_edges < reset_cnt_max - 1

\* The counter held its last value over an edge that moved the state.
FsmLockoutOver ==
    /\ fsm_pre.cnt = reset_cnt_max - 1
    /\ reset_cnt = reset_cnt_max - 1
    /\ fsm_pre.state = "B"
    /\ fsm_state = "C"

\* C19: the state changes on an edge only if some raw input had then been
\* sampled high on D + 1 edges in a row, the last of them two edges
\* earlier at the latest: that input's edge[i] is what moved the state.  A
\* pulse of fewer high samples moves nothing.
FsmBounceImmune ==
    /\ \A i \in 0..(inputs_width - 1) :
          BitOf(fsm_pre.chgs, i) = 1 => fsm_long[i].d2
    /\ (fsm_edges >= 1 /\ fsm_state /= fsm_pre.state)
          => \E i \in 0..(inputs_width - 1) :
                BitOf(fsm_pre.chgs, i) = 1 /\ fsm_long[i].d2

\* The state moved on a press of raw input 0 of just D + 1 edges, released
\* since.
FsmMovedAfterPress ==
    /\ fsm_pre.state = "A"
    /\ fsm_state = "B"
    /\ fsm_pre.chgs = 1
    /\ fsm_long[0].d2
    /\ ~fsm_long[0].d1
    /\ fsm_high[0] = 0

FsmAfterEdge(inputs) ==
    LET nxt == fsm_next_state_logic(fsm_state, reset_cnt, input_chgs, dbnc_inputs)
        db(i) == debouncer_next_state_logic(FsmDebounceTime, fsm_db[i].debounce_cnt,
                                            fsm_db[i].prev_button, BitOf(inputs, i))
        out(i) == debouncer_output_logic(fsm_db[i].debounce_cnt,
                                         fsm_db[i].prev_button, fsm_db[i].button_o)
    IN  [fsm_state |-> nxt.fsm_state, reset_cnt |-> nxt.reset_cnt,
         prev_inputs |-> nxt.prev_inputs,
         fsm_db |-> [i \in 0..(inputs_width - 1) |->
                       [debounce_cnt |-> db(i).debounce_cnt,
                        prev_button |-> db(i).prev_button,
                        button_o |-> out(i)]]]

\* The staged values when exactly the blocks in done have run, each
\* having read the values from before the edge.
StagedBy(done, inputs) ==
    LET after == FsmAfterEdge(inputs)
        fsm == <<"fsm_next_state_logic", 0>> \in done
    IN  [fsm_state |-> IF fsm THEN after.fsm_state ELSE fsm_state,
         reset_cnt |-> IF fsm THEN after.reset_cnt ELSE reset_cnt,
         prev_inputs |-> IF fsm THEN after.prev_inputs ELSE prev_inputs,
         fsm_db |-> [i \in 0..(inputs_width - 1) |->
            [debounce_cnt |-> IF <<"db_next_state_logic", i>> \in done
                              THEN after.fsm_db[i].debounce_cnt
                              ELSE fsm_db[i].debounce_cnt,
             prev_button |-> IF <<"db_next_state_logic", i>> \in done
                             THEN after.fsm_db[i].prev_button
                             ELSE fsm_db[i].prev_button,
             button_o |-> IF <<"db_output_logic", i>> \in done
                          THEN after.fsm_db[i].button_o
                          ELSE fsm_db[i].button_o]]]

====
